---- MODULE Spec2Model ----
(***************************************************************************)
(* A model of wiki.go: the page store (Page.save, loadPage), the path      *)
(* validator (validPath), the dispatcher (makeHandler), the page handlers  *)
(* (viewHandler, editHandler, saveHandler, rootHandler), renderTemplate    *)
(* and the routes main registers on the default mux.                       *)
(*                                                                         *)
(* Strings are sequences of one-character strings, so that concatenation,  *)
(* prefixes and character classes are computed as the code computes them.  *)
(* A request is served in one step; its record is kept until the next one. *)
(***************************************************************************)
EXTENDS Naturals, Sequences, FiniteSets, TLC

\* ------------------------------------------------------------------ bounds

\* Longest page body (in bytes) a request submits or the disk holds at start.
MaxBodyLen == 2

\* The save requests the server handles at the same time.
MaxConcurrent == 2

\* ------------------------------------------------------------ characters

Lower == {"a","b","c","d","e","f","g","h","i","j","k","l","m",
          "n","o","p","q","r","s","t","u","v","w","x","y","z"}
Upper == {"A","B","C","D","E","F","G","H","I","J","K","L","M",
          "N","O","P","Q","R","S","T","U","V","W","X","Y","Z"}
Digit == {"0","1","2","3","4","5","6","7","8","9"}

Alnum == Lower \cup Upper \cup Digit

\* The character class [a-zA-Z0-9] of validPath.
IsAlnum(c) == c \in Alnum

Slash == <<"/">>

\* strings.HasPrefix
HasPrefix(s, pre) == Len(s) >= Len(pre) /\ SubSeq(s, 1, Len(pre)) = pre

\* The alternation (edit|save|view) of validPath, tried in this order.
Actions == << <<"e","d","i","t">>, <<"s","a","v","e">>, <<"v","i","e","w">> >>

\* ----------------------------------------------------------------- inputs

\* The bytes page bodies are made of.
BodyBytes == {"x"}

\* The page bodies of at most MaxBodyLen bytes.
Bodies == UNION {[1..k -> BodyBytes] : k \in 0..MaxBodyLen}

\* Request methods; no handler reads the method.
Methods == {"GET", "POST"}

\* The request paths (r.URL.Path) the clients send.
Paths ==
    {  <<"/">>,
       <<"/", "f", "o", "o">>,
       <<"/", "v", "i", "e", "w">>,
       <<"/", "v", "i", "e", "w", "/">>,
       <<"/", "s", "a", "v", "e", "/">>,
       <<"/", "v", "i", "e", "w", "/", "A">>,
       <<"/", "e", "d", "i", "t", "/", "A">>,
       <<"/", "s", "a", "v", "e", "/", "A">>,
       <<"/", "v", "i", "e", "w", "/", "b", "7">>,
       <<"/", "e", "d", "i", "t", "/", "b", "7">>,
       <<"/", "s", "a", "v", "e", "/", "b", "7">>,
       <<"/", "d", "e", "l", "e", "t", "e", "/", "A">>,
       <<"/", "V", "I", "E", "W", "/", "A">>,
       <<"/", "x", "/", "v", "i", "e", "w", "/", "A">>,
       <<"/", "v", "i", "e", "w", "/", ".", ".", "/", "e", "t", "c", "/",
         "p", "a", "s", "s", "w", "d">>,
       <<"/", "e", "d", "i", "t", "/", ".", ".">>,
       <<"/", "v", "i", "e", "w", "/", ".", ".", "/", "s", "a", "v", "e", "/", "A">>,
       <<"/", "v", "i", "e", "w", "/", "a", ".", "b">>,
       <<"/", "s", "a", "v", "e", "/", "A", ".", "t", "x", "t">>,
       <<"/", "v", "i", "e", "w", "/", "A", "/", "b", "7">>,
       <<"/", "e", "d", "i", "t", "/", "A", "/">>,
       <<"/", "s", "a", "v", "e", "/", "/", "A">>,
       <<"/", "v", "i", "e", "w", "/", "A", "\n">>  }

\* Outcomes of ioutil.ReadFile on a file that exists.
LoadFaults == {"ok", "eio"}

\* Outcomes of ioutil.WriteFile: done, failed at open, failed after the
\* file was created or truncated and n bytes were written.
WriteFaults(data) ==
    {[kind |-> "ok", n |-> Len(data)], [kind |-> "open_err", n |-> 0]}
    \cup {[kind |-> "write_err", n |-> n] : n \in 0..(IF data = <<>> THEN 0 ELSE Len(data) - 1)}

\* Outcomes of templates.ExecuteTemplate: the page written, an error before
\* any output, an error after part of the output.
TemplateFaults == {"ok", "early_err", "partial_err"}

\* ------------------------------------------------------------------ state

VARIABLES
    fs,       \* the disk: file name -> content, for the files that exist
    saved,    \* title -> the body of the latest save of it, when that save succeeded
    method,   \* the request served last: its method,
    path,     \*   its path,
    route,    \*   the registered handler the mux gave it to,
    invoked,  \*   the calls makeHandler made of the wrapped handler,
    calls,    \*   the store operations it made,
    form,     \*   the form value "body" it read,
    render,   \*   the template executions it made,
    w,        \*   and its http.ResponseWriter
    writers   \* the save requests in flight, when requests are served concurrently

vars == <<fs, saved, method, path, route, invoked, calls, form, render, w, writers>>

\* --------------------------------------------------------------- the disk

DataDir == <<"d","a","t","a","/">>
TxtExt  == <<".","t","x","t">>

NoFiles == [name \in {} |-> <<>>]

Put(disk, name, data) ==
    [x \in (DOMAIN disk) \cup {name} |-> IF x = name THEN data ELSE disk[x]]

\* ioutil.WriteFile(filename, data, 0600): create or truncate, write, close.
WriteFile(disk, filename, data, wf) ==
    CASE wf.kind = "ok"        -> [err |-> "nil",    fs |-> Put(disk, filename, data)]
      [] wf.kind = "open_err"  -> [err |-> "EACCES", fs |-> disk]
      [] wf.kind = "write_err" -> [err |-> "ENOSPC",
                                   fs  |-> Put(disk, filename, SubSeq(data, 1, wf.n))]

\* ioutil.ReadFile(filename)
ReadFile(disk, filename, lf) ==
    IF filename \notin DOMAIN disk THEN [err |-> "ENOENT", data |-> <<>>]
    ELSE IF lf = "eio" THEN [err |-> "EIO", data |-> <<>>]
    ELSE [err |-> "nil", data |-> disk[filename]]

\* ------------------------------------------------------------- page store

\* The file Page.save writes.
SaveFilename(title) == DataDir \o title \o TxtExt

\* The file loadPage reads.
LoadFilename(title) == title \o TxtExt

\* func (p *Page) save() error
save(disk, p, wf) == WriteFile(disk, SaveFilename(p.Title), p.Body, wf)

NilPage == [Title |-> <<>>, Body |-> <<>>]

\* func loadPage(title string) (*Page, error)
loadPage(disk, title, lf) ==
    LET r == ReadFile(disk, LoadFilename(title), lf)
    IN  IF r.err # "nil" THEN [p |-> NilPage, err |-> r.err]
        ELSE [p |-> [Title |-> title, Body |-> r.data], err |-> "nil"]

\* ------------------------------------------------------------ validPath

\* The title matched after the prefix "/" action "/": the whole rest of the
\* path, when it is one or more characters of [a-zA-Z0-9] up to the end ($).
MatchAction(p, a) ==
    LET pre == Slash \o a \o Slash
    IN  /\ HasPrefix(p, pre)
        /\ Len(p) > Len(pre)
        /\ \A i \in (Len(pre) + 1)..Len(p) : IsAlnum(p[i])

\* The longest run of [a-zA-Z0-9] in p from position i on.
RECURSIVE AlnumRun(_, _)
AlnumRun(p, i) ==
    IF i <= Len(p) /\ IsAlnum(p[i]) THEN <<p[i]>> \o AlnumRun(p, i + 1) ELSE <<>>

\* FindStringSubmatch for the pattern without its final $: the title is the
\* run of [a-zA-Z0-9] after the prefix, whatever follows it.
FindStringSubmatchNoEnd(p) ==
    IF \E k \in 1..Len(Actions) :
          HasPrefix(p, Slash \o Actions[k] \o Slash) /\ AlnumRun(p, Len(Actions[k]) + 3) # <<>>
    THEN LET k == CHOOSE j \in 1..Len(Actions) : HasPrefix(p, Slash \o Actions[j] \o Slash)
             a == Actions[k]
             t == AlnumRun(p, Len(a) + 3)
         IN  <<Slash \o a \o Slash \o t, a, t>>
    ELSE <<>>

\* FindStringSubmatch for the pattern with (.+) as its title group.
FindStringSubmatchAnyTitle(p) ==
    IF \E k \in 1..Len(Actions) :
          HasPrefix(p, Slash \o Actions[k] \o Slash) /\ Len(p) > Len(Actions[k]) + 2
    THEN LET k == CHOOSE j \in 1..Len(Actions) : HasPrefix(p, Slash \o Actions[j] \o Slash)
             a == Actions[k]
         IN  <<p, a, SubSeq(p, Len(a) + 3, Len(p))>>
    ELSE <<>>

\* validPath.FindStringSubmatch(p): <<m[0], m[1], m[2]>>, or <<>> for nil.
FindStringSubmatch(p) ==
    IF \E k \in 1..Len(Actions) : MatchAction(p, Actions[k])
    THEN LET k == CHOOSE j \in 1..Len(Actions) : MatchAction(p, Actions[j])
             a == Actions[k]
         IN  <<p, a, SubSeq(p, Len(a) + 3, Len(p))>>
    ELSE <<>>

\* ---------------------------------------------------- http.ResponseWriter

\* A response nothing was written to: status 0 is "no header sent yet".
NewWriter == [status |-> 0, location |-> <<>>, hdrs |-> <<>>, body |-> <<>>]

\* w.WriteHeader(code): the first call sets the status, later ones are ignored.
WriteHeader(rw, code) ==
    [rw EXCEPT !.hdrs = Append(@, code),
               !.status = IF @ = 0 THEN code ELSE @]

\* w.Write(chunk): sends the header with status 200 when none was sent.
Write(rw, chunk) ==
    LET r1 == IF rw.status = 0 THEN WriteHeader(rw, 200) ELSE rw
    IN  [r1 EXCEPT !.body = Append(@, chunk)]

\* http.Redirect(w, r, url, code): the Location header counts only when it
\* is set before the header is sent.
Redirect(rw, url, code) ==
    WriteHeader([rw EXCEPT !.location = IF rw.status = 0 THEN url ELSE @], code)

\* http.Error(w, msg, code)
Error(rw, msg, code) == Write(WriteHeader(rw, code), msg)

\* http.NotFound(w, r)
NotFound(rw) == Error(rw, "404 page not found", 404)

\* --------------------------------------------------------------- templates

\* The templates parsed at start, by base name.
Templates == {"edit.html", "view.html"}

\* templates.ExecuteTemplate(w, name, p)
ExecuteTemplate(rw, name, p, tf) ==
    CASE name \notin Templates -> [w |-> rw, err |-> "no such template"]
      [] tf = "ok"             -> [w |-> Write(rw, "html"), err |-> "nil"]
      [] tf = "early_err"      -> [w |-> rw, err |-> "exec error"]
      [] tf = "partial_err"    -> [w |-> Write(rw, "partial html"), err |-> "exec error"]

\* -------------------------------------------------------------- handlers
\* A handler maps the request's context e (the disk, the response writer and
\* the record of what the request did) to the context it leaves. x holds what
\* the request meets: the submitted body and the outcome of each IO call.

Drop(f, t) == [u \in (DOMAIN f) \ {t} |-> f[u]]

EditPrefix == <<"/","e","d","i","t","/">>
ViewPrefix == <<"/","v","i","e","w","/">>
SavePrefix == <<"/","s","a","v","e","/">>
FrontPageURL == <<"/","v","i","e","w","/","F","r","o","n","t","P","a","g","e">>

\* func renderTemplate(w http.ResponseWriter, tmpl string, p *Page)
renderTemplate(e, tmpl, p, tf) ==
    LET r  == ExecuteTemplate(e.w, tmpl \o ".html", p, tf)
        e1 == [e EXCEPT !.w = r.w,
                        !.render = Append(@, [tmpl |-> tmpl, p |-> p, err |-> r.err])]
    IN  IF r.err # "nil"
        THEN [e1 EXCEPT !.w = Error(@, r.err, 500)]
        ELSE e1

\* The record of a loadPage call.
LoadCall(title, r) ==
    [op |-> "load", title |-> title, file |-> LoadFilename(title),
     body |-> r.p.Body, err |-> r.err]

\* viewHandler answering a failed load with "not found".
viewHandlerNotFound(e, title, x) ==
    LET r  == loadPage(e.fs, title, x.lf)
        e1 == [e EXCEPT !.calls = Append(@, LoadCall(title, r))]
    IN  IF r.err # "nil"
        THEN [e1 EXCEPT !.w = NotFound(@)]
        ELSE renderTemplate(e1, "view", r.p, x.tf)

\* func viewHandler(w http.ResponseWriter, r *http.Request, title string)
viewHandler(e, title, x) ==
    LET r  == loadPage(e.fs, title, x.lf)
        e1 == [e EXCEPT !.calls = Append(@, LoadCall(title, r))]
    IN  IF r.err # "nil"
        THEN [e1 EXCEPT !.w = Redirect(@, EditPrefix \o title, 302)]
        ELSE renderTemplate(e1, "view", r.p, x.tf)

\* editHandler creating the page it does not find: the empty page is saved
\* before the form is rendered.
editHandlerCreates(e, title, x) ==
    LET r  == loadPage(e.fs, title, x.lf)
        e1 == [e EXCEPT !.calls = Append(@, LoadCall(title, r))]
        p  == IF r.err # "nil" THEN [Title |-> title, Body |-> <<>>] ELSE r.p
        e2 == IF r.err # "nil"
              THEN [e1 EXCEPT !.fs = save(@, p, [kind |-> "ok", n |-> 0]).fs]
              ELSE e1
    IN  renderTemplate(e2, "edit", p, x.tf)

\* func editHandler(w http.ResponseWriter, r *http.Request, title string)
editHandler(e, title, x) ==
    LET r  == loadPage(e.fs, title, x.lf)
        e1 == [e EXCEPT !.calls = Append(@, LoadCall(title, r))]
        p  == IF r.err # "nil" THEN [Title |-> title, Body |-> <<>>] ELSE r.p
    IN  renderTemplate(e1, "edit", p, x.tf)

\* saveHandler without its return after http.Error: the redirect follows
\* the error.
saveHandlerNoReturn(e, title, x) ==
    LET body == x.body
        p    == [Title |-> title, Body |-> body]
        r    == save(e.fs, p, x.wf)
        e1   == [e EXCEPT
                   !.form  = Append(@, body),
                   !.fs    = r.fs,
                   !.saved = IF r.err = "nil" THEN Put(@, title, body) ELSE Drop(@, title),
                   !.calls = Append(@, [op |-> "save", title |-> title,
                                        file |-> SaveFilename(title),
                                        body |-> body, err |-> r.err])]
        e2   == IF r.err # "nil" THEN [e1 EXCEPT !.w = Error(@, r.err, 500)] ELSE e1
    IN  [e2 EXCEPT !.w = Redirect(@, ViewPrefix \o title, 302)]

\* func saveHandler(w http.ResponseWriter, r *http.Request, title string)
saveHandler(e, title, x) ==
    LET body == x.body
        p    == [Title |-> title, Body |-> body]
        r    == save(e.fs, p, x.wf)
        e1   == [e EXCEPT
                   !.form  = Append(@, body),
                   !.fs    = r.fs,
                   !.saved = IF r.err = "nil" THEN Put(@, title, body) ELSE Drop(@, title),
                   !.calls = Append(@, [op |-> "save", title |-> title,
                                        file |-> SaveFilename(title),
                                        body |-> body, err |-> r.err])]
    IN  IF r.err # "nil"
        THEN [e1 EXCEPT !.w = Error(@, r.err, 500)]
        ELSE [e1 EXCEPT !.w = Redirect(@, ViewPrefix \o title, 302)]

\* func rootHandler(w http.ResponseWriter, r *http.Request)
rootHandler(e) == [e EXCEPT !.w = Redirect(@, FrontPageURL, 302)]

\* The call fn(w, r, title) of the handler makeHandler encloses.
CallFn(fn, e, title, x) ==
    CASE fn = "view" -> viewHandler(e, title, x)
      [] fn = "edit" -> editHandler(e, title, x)
      [] fn = "save" -> saveHandler(e, title, x)

\* makeHandler passing the first group (the action) as the title.
makeHandlerFirstGroup(fn, e, p, x) ==
    LET m == FindStringSubmatch(p)
    IN  IF m = <<>>
        THEN [e EXCEPT !.w = NotFound(@)]
        ELSE CallFn(fn, [e EXCEPT !.invoked = Append(@, [fn |-> fn, title |-> m[2]])],
                    m[2], x)

\* The closure makeHandler(fn) returns, applied to a request with path p.
\* Go's m[2] is m[3] here: sequences start at 1.
makeHandler(fn, e, p, x) ==
    LET m == FindStringSubmatch(p)
    IN  IF m = <<>>
        THEN [e EXCEPT !.w = NotFound(@)]
        ELSE CallFn(fn, [e EXCEPT !.invoked = Append(@, [fn |-> fn, title |-> m[3]])],
                    m[3], x)

\* ------------------------------------------------------------ the routes
\* main registers four patterns on http.DefaultServeMux and serves with it.

\* The registration with the handlers of /view/ and /save/ exchanged.
RegisteredSwapped ==
    (<<"/">> :> "root") @@ (<<"/","v","i","e","w","/">> :> "save")
    @@ (<<"/","e","d","i","t","/">> :> "edit") @@ (<<"/","s","a","v","e","/">> :> "view")

\* pattern -> registered handler
Registered ==
    (<<"/">> :> "root") @@ (ViewPrefix :> "view")
    @@ (EditPrefix :> "edit") @@ (SavePrefix :> "save")

\* One path element taken in by path.Clean: "" and "." are dropped, ".."
\* removes the element before it (none at the root), others are kept.
PushElem(stack, elem) ==
    CASE elem = <<>> \/ elem = <<".">> -> stack
      [] elem = <<".", ".">>           ->
            IF stack = <<>> THEN stack ELSE SubSeq(stack, 1, Len(stack) - 1)
      [] OTHER                         -> Append(stack, elem)

\* The elements of p[i..] cleaned onto stack; elem is the element being read.
RECURSIVE CleanFrom(_, _, _, _)
CleanFrom(p, i, stack, elem) ==
    IF i > Len(p) THEN PushElem(stack, elem)
    ELSE IF p[i] = "/" THEN CleanFrom(p, i + 1, PushElem(stack, elem), <<>>)
    ELSE CleanFrom(p, i + 1, stack, Append(elem, p[i]))

RECURSIVE JoinElems(_)
JoinElems(stack) ==
    IF stack = <<>> THEN <<>> ELSE Slash \o Head(stack) \o JoinElems(Tail(stack))

\* path.Clean of a rooted path
PathClean(p) ==
    LET s == JoinElems(CleanFrom(p, 1, <<>>, <<>>))
    IN  IF s = <<>> THEN Slash ELSE s

\* net/http cleanPath: the canonical path, a trailing slash kept.
cleanPath(p) ==
    LET p1 == IF p = <<>> \/ p[1] # "/" THEN Slash \o p ELSE p
        np == PathClean(p1)
    IN  IF p1[Len(p1)] = "/" /\ np # Slash THEN np \o Slash ELSE np

\* The registered pattern a path is served by: the path itself, or the
\* longest registered pattern ending in "/" that is a prefix of it.
MatchPattern(p) ==
    IF p \in DOMAIN Registered THEN p
    ELSE CHOOSE pat \in DOMAIN Registered :
            /\ HasPrefix(p, pat)
            /\ \A q \in DOMAIN Registered : HasPrefix(p, q) => Len(q) <= Len(pat)

\* ServeMux.Handler: redirect (301) to path + "/" when only that is
\* registered, redirect to the canonical path when the path is not
\* canonical, else the handler of the matching pattern.
ServeMux(p) ==
    LET cp == cleanPath(p)
    IN  IF cp \notin DOMAIN Registered /\ (cp \o Slash) \in DOMAIN Registered
        THEN [h |-> "redirect", url |-> cp \o Slash]
        ELSE IF cp # p
        THEN [h |-> "redirect", url |-> cp]
        ELSE [h |-> Registered[MatchPattern(p)], url |-> <<>>]

\* The mux's answer for each path the clients send.
Routes == [p \in Paths |-> ServeMux(p)]

\* ----------------------------------------------------------------- actions

\* The context a request starts in.
Begin ==
    [fs |-> fs, saved |-> saved, invoked |-> <<>>, calls |-> <<>>,
     form |-> <<>>, render |-> <<>>, w |-> NewWriter]

\* What a request meets when it reads no form and does no IO of that kind.
NoInput == [body |-> <<>>, lf |-> "ok", wf |-> [kind |-> "ok", n |-> 0], tf |-> "ok"]

\* The request (m, p), given to handler h, ends in context e.
Served(m, p, h, e) ==
    /\ method' = m
    /\ path' = p
    /\ route' = h
    /\ fs' = e.fs
    /\ saved' = e.saved
    /\ invoked' = e.invoked
    /\ calls' = e.calls
    /\ form' = e.form
    /\ render' = e.render
    /\ w' = e.w
    /\ UNCHANGED writers

\* The mux answers by itself with a redirect to the canonical path.
ServeRedirect ==
    \E p \in Paths :
        /\ Routes[p].h = "redirect"
        /\ LET e == [Begin EXCEPT !.w = Redirect(@, Routes[p].url, 301)]
           IN  \E m \in Methods : Served(m, p, "redirect", e)

\* http.HandleFunc("/", rootHandler)
ServeRoot ==
    \E p \in Paths :
        /\ Routes[p].h = "root"
        /\ LET e == rootHandler(Begin)
           IN  \E m \in Methods : Served(m, p, "root", e)

\* http.HandleFunc("/view/", makeHandler(viewHandler))
ServeView ==
    \E p \in Paths :
        /\ Routes[p].h = "view"
        /\ \E lf \in LoadFaults, tf \in TemplateFaults :
             LET e == makeHandler("view", Begin, p, [NoInput EXCEPT !.lf = lf, !.tf = tf])
             IN  \E m \in Methods : Served(m, p, "view", e)

\* http.HandleFunc("/edit/", makeHandler(editHandler))
ServeEdit ==
    \E p \in Paths :
        /\ Routes[p].h = "edit"
        /\ \E lf \in LoadFaults, tf \in TemplateFaults :
             LET e == makeHandler("edit", Begin, p, [NoInput EXCEPT !.lf = lf, !.tf = tf])
             IN  \E m \in Methods : Served(m, p, "edit", e)

\* http.HandleFunc("/save/", makeHandler(saveHandler))
ServeSave ==
    \E p \in Paths :
        /\ Routes[p].h = "save"
        /\ \E body \in Bodies :
             \E wf \in WriteFaults(body) :
               LET e == makeHandler("save", Begin, p, [NoInput EXCEPT !.body = body, !.wf = wf])
               IN  \E m \in Methods : Served(m, p, "save", e)

\* A goroutine of the server with no request to serve.
Idle == [pc |-> "idle", title |-> <<>>, body |-> <<>>, status |-> 0]

\* A page file left in the working directory before the server starts.
StaleTitle == <<"A">>
StaleBody == <<"x">>

Init ==
    /\ fs \in {NoFiles, Put(NoFiles, LoadFilename(StaleTitle), StaleBody)}
    /\ saved = NoFiles
    /\ method = "none"
    /\ path = <<>>
    /\ route = "none"
    /\ invoked = <<>>
    /\ calls = <<>>
    /\ form = <<>>
    /\ render = <<>>
    /\ w = NewWriter
    /\ writers = [i \in 1..MaxConcurrent |-> Idle]

Next == ServeRedirect \/ ServeRoot \/ ServeView \/ ServeEdit \/ ServeSave

Spec == Init /\ [][Next]_vars

\* ------------------------------------------------- concurrent save requests
\* net/http serves each request on its own goroutine. Here the steps of
\* MaxConcurrent requests to /save/ interleave at the system calls of
\* ioutil.WriteFile: open with O_WRONLY|O_CREATE|O_TRUNC, then one write at
\* the offset of the request's own descriptor, which starts at 0. No fault
\* is met, so every request completes.

\* The bytes of the bodies the concurrent requests submit.
ConcBodyBytes == {"x", "y"}

ConcBodies == UNION {[1..k -> ConcBodyBytes] : k \in 0..MaxBodyLen}

\* A write of data at offset 0 of a file holding old: the bytes of old past
\* the end of data stay.
WriteAt0(old, data) == data \o SubSeq(old, Len(data) + 1, Len(old))

\* What is left of the record of the request served last: nothing is served
\* in one step here.
NoRequest == UNCHANGED <<saved, method, path, route, invoked, calls, form, render, w>>

\* makeHandler(saveHandler) up to the call of p.save(): the path is matched
\* and the page built from the title and the form value.
ConcAccept(i) ==
    /\ writers[i].pc = "idle"
    /\ \E p \in Paths, body \in ConcBodies :
          /\ Routes[p].h = "save"
          /\ FindStringSubmatch(p) # <<>>
          /\ writers' = [writers EXCEPT ![i] =
                 [pc |-> "open", title |-> FindStringSubmatch(p)[3],
                  body |-> body, status |-> 0]]
    /\ UNCHANGED fs
    /\ NoRequest

\* ioutil.WriteFile, first step: the file is created or truncated.
ConcOpen(i) ==
    /\ writers[i].pc = "open"
    /\ fs' = Put(fs, SaveFilename(writers[i].title), <<>>)
    /\ writers' = [writers EXCEPT ![i].pc = "write"]
    /\ NoRequest

\* ioutil.WriteFile, second step: the body is written and the file closed;
\* save returns nil and saveHandler redirects.
ConcWrite(i) ==
    /\ writers[i].pc = "write"
    /\ fs' = [fs EXCEPT ![SaveFilename(writers[i].title)] = WriteAt0(@, writers[i].body)]
    /\ writers' = [writers EXCEPT ![i].pc = "done", ![i].status = 302]
    /\ NoRequest

\* The response is sent and the goroutine ends.
ConcFinish(i) ==
    /\ writers[i].pc = "done"
    /\ writers' = [writers EXCEPT ![i] = Idle]
    /\ UNCHANGED fs
    /\ NoRequest

NextConc ==
    \E i \in 1..MaxConcurrent :
        ConcAccept(i) \/ ConcOpen(i) \/ ConcWrite(i) \/ ConcFinish(i)

SpecConc == Init /\ [][NextConc]_vars

\* ------------------------------------------------------------ the grammar
\* The validator grammar as the specification words it: a path is "/", an
\* action of {edit, save, view}, "/", and a title of one or more ASCII
\* letters and digits. A split <<k, n>> names the action and the title's length.

GrammarSplits(p) ==
    {s \in (1..Len(Actions)) \X (1..Len(p)) :
        /\ p = Slash \o Actions[s[1]] \o Slash \o SubSeq(p, Len(p) - s[2] + 1, Len(p))
        /\ \A i \in (Len(p) - s[2] + 1)..Len(p) : p[i] \in Alnum}

InGrammar(p) == GrammarSplits(p) # {}

GrammarTitle(p) ==
    LET s == CHOOSE s \in GrammarSplits(p) : TRUE
    IN  SubSeq(p, Len(p) - s[2] + 1, Len(p))

Wrapped == {"view", "edit", "save"}

\* The request served last went to a wrapped handler with a path of the grammar.
ValidRequest(h) == route = h /\ InGrammar(path)

\* ------------------------------------------------------------------ claims

\* C1: round trip of the page store. When the latest save of title t
\* succeeded with body b, loadPage(t), met by no IO fault, succeeds and
\* returns the page with title t and body b.
RoundTrip ==
    \A t \in DOMAIN saved :
        loadPage(fs, t, "ok") = [p |-> [Title |-> t, Body |-> saved[t]], err |-> "nil"]

\* C2: read after write at the handlers. When a request to /save/t has ended
\* with its redirect and the next request is to /view/t and its read meets no
\* IO fault, that request executes the view template with a page of title t
\* whose body is the one submitted, and does not redirect.
ReadAfterWrite ==
    [][(/\ ValidRequest("save") /\ w.status = 302
        /\ route' = "view" /\ InGrammar(path')
        /\ GrammarTitle(path') = GrammarTitle(path)
        /\ \A i \in 1..Len(calls') : calls'[i].err # "EIO")
       => (/\ Len(render') = 1
           /\ render'[1].tmpl = "view"
           /\ render'[1].p = [Title |-> GrammarTitle(path), Body |-> form[1]]
           /\ w'.status # 302)]_vars

\* C3: a request whose path is not of the grammar, given to a handler that
\* makeHandler made, is answered 404 "not found" and nothing else: the
\* wrapped handler is not invoked and the store is neither read nor written.
DispatcherRejects ==
    (route \in Wrapped /\ ~InGrammar(path))
    => (/\ w.status = 404
        /\ w.hdrs = <<404>>
        /\ w.body = <<"404 page not found">>
        /\ w.location = <<>>
        /\ invoked = <<>>
        /\ calls = <<>>
        /\ render = <<>>)

\* A path with a dot in its title was answered 404 by the view route.
DispatcherRejectsWitness ==
    /\ route = "view"
    /\ path = ViewPrefix \o <<"a", ".", "b">>
    /\ ~InGrammar(path)
    /\ w.status = 404

\* C4: every title a request passes to the store (save or loadPage) is not
\* empty and made of ASCII letters and digits only, and the file the store
\* then names is that title followed by ".txt", under the directory of the
\* operation.
StoreTitlesSafe ==
    \A i \in 1..Len(calls) :
        LET c == calls[i]
        IN  /\ c.title # <<>>
            /\ \A j \in 1..Len(c.title) : c.title[j] \in Alnum
            /\ c.file = (IF c.op = "save" THEN DataDir ELSE <<>>) \o c.title \o TxtExt

\* A save of the title b7 reached the store and wrote data/b7.txt.
StoreTitlesSafeWitness ==
    /\ Len(calls) = 1
    /\ calls[1].op = "save"
    /\ calls[1].title = <<"b", "7">>
    /\ calls[1].err = "nil"
    /\ SaveFilename(<<"b", "7">>) \in DOMAIN fs

\* C5: a request to /view/t for a title t of the grammar with no file to
\* load is answered with a 302 redirect to /edit/t and nothing else: no
\* template is executed, no error is written and the disk stays as it was.
ViewMissingRedirects ==
    [][(/\ route' = "view" /\ InGrammar(path')
        /\ LoadFilename(GrammarTitle(path')) \notin DOMAIN fs)
       => (/\ w'.status = 302
           /\ w'.location = EditPrefix \o GrammarTitle(path')
           /\ w'.hdrs = <<302>>
           /\ w'.body = <<>>
           /\ render' = <<>>
           /\ fs' = fs)]_vars

\* /view/b7 was asked with no b7.txt on the disk and answered with a redirect.
ViewMissingRedirectsWitness ==
    /\ ValidRequest("view")
    /\ GrammarTitle(path) = <<"b", "7">>
    /\ LoadFilename(<<"b", "7">>) \notin DOMAIN fs
    /\ w.status = 302
    /\ w.location = EditPrefix \o <<"b", "7">>

\* C6: when the load of a request to /view/t fails with an IO error other
\* than "not found", the answer is a server error (500), not a redirect.
ViewLoadFaultIs500 ==
    (/\ ValidRequest("view")
     /\ calls # <<>>
     /\ calls[1].err \notin {"nil", "ENOENT"})
    => (w.status = 500 /\ w.location = <<>>)

\* C7: a request to /edit/t for a title t of the grammar, whose read meets
\* no IO fault, executes the edit template once with a page of title t; the
\* page's body is the body of the latest save of t when that save succeeded,
\* and empty when t has no file at all. It never redirects.
EditRendersSaved ==
    (ValidRequest("edit") /\ \A i \in 1..Len(calls) : calls[i].err # "EIO")
    => LET t == GrammarTitle(path)
       IN  /\ Len(render) = 1
           /\ render[1].tmpl = "edit"
           /\ render[1].p.Title = t
           /\ t \in DOMAIN saved => render[1].p.Body = saved[t]
           /\ (LoadFilename(t) \notin DOMAIN fs /\ SaveFilename(t) \notin DOMAIN fs)
                 => render[1].p.Body = <<>>
           /\ w.location = <<>>

\* C8: a request to /save/t for a title t of the grammar with submitted body
\* b calls save once, with the page of title t and body b. When the save
\* succeeds the answer is a 302 redirect to /view/t and nothing else; when
\* it fails the answer is 500 with the error's text and no redirect.
SaveOutcome ==
    ValidRequest("save")
    => LET t == GrammarTitle(path)
       IN  /\ Len(calls) = 1
           /\ Len(form) = 1
           /\ calls[1].op = "save"
           /\ calls[1].title = t
           /\ calls[1].body = form[1]
           /\ calls[1].err = "nil"
                => (/\ w.status = 302
                    /\ w.location = ViewPrefix \o t
                    /\ w.hdrs = <<302>>
                    /\ w.body = <<>>)
           /\ calls[1].err # "nil"
                => (/\ w.status = 500
                    /\ w.hdrs = <<500>>
                    /\ w.body = <<calls[1].err>>
                    /\ w.location = <<>>)

\* A save failed after truncating the file and was answered 500.
SaveOutcomeWitness ==
    /\ ValidRequest("save")
    /\ form = << <<"x", "x">> >>
    /\ calls[1].err = "ENOSPC"
    /\ fs[SaveFilename(GrammarTitle(path))] = <<"x">>
    /\ w.status = 500

\* C9: with the routes main registers, every request that reaches one of the
\* registered handlers with a path that is not "/" and not of the grammar is
\* answered 404, never with a redirect or a page, and reaches no store
\* operation.
UnroutedIs404 ==
    (route \in Wrapped \cup {"root"} /\ path # Slash /\ ~InGrammar(path))
    => (/\ w.status = 404
        /\ w.location = <<>>
        /\ render = <<>>
        /\ calls = <<>>)

\* C10: for a path of the grammar, makeHandler invokes the wrapped handler
\* once, with the whole segment after the action as the title, and the title
\* of every store call, rendered page and redirect of the request is that one.
TitleIsSecondGroup ==
    (route \in Wrapped /\ InGrammar(path))
    => /\ Len(invoked) = 1
       /\ invoked[1].fn = route
       /\ \E k \in 1..Len(Actions) :
             path = Slash \o Actions[k] \o Slash \o invoked[1].title
       /\ \A i \in 1..Len(calls) : calls[i].title = invoked[1].title
       /\ \A i \in 1..Len(render) : render[i].p.Title = invoked[1].title
       /\ w.location \in {<<>>, EditPrefix \o invoked[1].title,
                          ViewPrefix \o invoked[1].title}

\* /edit/b7 invoked the edit handler with the title b7.
TitleIsSecondGroupWitness ==
    /\ route = "edit"
    /\ path = EditPrefix \o <<"b", "7">>
    /\ invoked = <<[fn |-> "edit", title |-> <<"b", "7">>]>>
    /\ Len(render) = 1

\* C11: full overwrite. When a request to /save/t has succeeded and the next
\* request is a save of the same title that succeeds too, with another body
\* b2, the file the save wrote holds exactly b2, whatever it held before, and
\* loadPage(t), met by no IO fault, returns the page with title t and body b2.
OverwriteInFull ==
    [][(/\ ValidRequest("save") /\ w.status = 302
        /\ route' = "save" /\ InGrammar(path') /\ w'.status = 302
        /\ GrammarTitle(path') = GrammarTitle(path)
        /\ form'[1] # form[1])
       => LET t  == GrammarTitle(path')
              b2 == form'[1]
          IN  /\ fs'[SaveFilename(t)] = b2
              /\ loadPage(fs', t, "ok") = [p |-> [Title |-> t, Body |-> b2], err |-> "nil"]]_vars

\* C12: the frame of a request. A request that saves title t leaves every
\* file but the one the save names as it was: no other file appears,
\* disappears or changes. A request that saves nothing (a view, an edit, the
\* root redirect, a 404, a redirect of the mux) leaves the whole disk as it
\* was.
FrameOfRequest ==
    [][LET saves == {i \in 1..Len(calls') : calls'[i].op = "save"}
           named == {SaveFilename(calls'[i].title) : i \in saves}
       IN  /\ (route' # "save" \/ invoked' = <<>>) => fs' = fs
           /\ named # {} => (InGrammar(path') /\ named = {SaveFilename(GrammarTitle(path'))})
           /\ \A f \in ((DOMAIN fs) \cup (DOMAIN fs')) \ named :
                 f \in DOMAIN fs /\ f \in DOMAIN fs' /\ fs'[f] = fs[f]]_vars

\* A save of b7 was served while A.txt and data/A.txt were on the disk.
FrameOfRequestWitness ==
    /\ ValidRequest("save")
    /\ GrammarTitle(path) = <<"b", "7">>
    /\ calls[1].err = "nil"
    /\ LoadFilename(<<"A">>) \in DOMAIN fs
    /\ SaveFilename(<<"A">>) \in DOMAIN fs
    /\ fs[SaveFilename(<<"A">>)] = <<"x", "x">>

\* C13: concurrent saves of one title. When two requests that save the same
\* title with bodies b1 and b2 have both completed, the file they wrote
\* holds exactly b1 or exactly b2.
ConcurrentSavesKeepOne ==
    \A i, j \in 1..MaxConcurrent :
        (/\ i # j
         /\ writers[i].pc = "done" /\ writers[j].pc = "done"
         /\ writers[i].title = writers[j].title)
        => fs[SaveFilename(writers[i].title)] \in {writers[i].body, writers[j].body}

\* C14: whenever the execution of a template fails for a request, also
\* after part of the output was written, the status the client receives is
\* 500.
RenderFailureIs500 ==
    (\E i \in 1..Len(render) : render[i].err # "nil") => w.status = 500

\* C15: a GET request, whatever its path, leaves the disk as it was: only a
\* POST changes a stored page.
GetNeverWrites ==
    [][method' = "GET" => fs' = fs]_vars

\* C16: every request a registered handler serves ends with exactly one
\* outcome written to its response, one of 200, 302, 404 and 500: never two,
\* never none.
OneOutcome ==
    route \in Wrapped \cup {"root"}
    => (Len(w.hdrs) = 1 /\ w.status \in {200, 302, 404, 500})

\* The prefix of the paths of each wrapped handler.
PrefixOf(fn) ==
    CASE fn = "view" -> <<"/", "v", "i", "e", "w", "/">>
      [] fn = "edit" -> <<"/", "e", "d", "i", "t", "/">>
      [] fn = "save" -> <<"/", "s", "a", "v", "e", "/">>

\* C17: the handler that runs is the one of the path's action segment: a
\* path served by a wrapped handler starts with that handler's prefix, every
\* invocation is of that handler, a view or an edit only loads, and no
\* request whose path starts with /view/ or /edit/ calls save.
HandlerAgreesWithAction ==
    /\ route \in Wrapped => HasPrefix(path, PrefixOf(route))
    /\ \A i \in 1..Len(invoked) :
          /\ invoked[i].fn = route
          /\ path = PrefixOf(invoked[i].fn) \o invoked[i].title
    /\ \A i \in 1..Len(calls) :
          calls[i].op = "save" <=> (route = "save" /\ HasPrefix(path, PrefixOf("save")))
    /\ (HasPrefix(path, PrefixOf("view")) \/ HasPrefix(path, PrefixOf("edit")))
          => \A i \in 1..Len(calls) : calls[i].op = "load"

\* /view/A was served by the view handler, which loaded A.txt and rendered it.
HandlerAgreesWithActionWitness ==
    /\ route = "view"
    /\ path = PrefixOf("view") \o <<"A">>
    /\ invoked = <<[fn |-> "view", title |-> <<"A">>]>>
    /\ Len(calls) = 1 /\ calls[1].op = "load" /\ calls[1].err = "nil"
    /\ w.status = 200

====
